---- MODULE Spec2Model ----
(***************************************************************************)
(* The Aho-Corasick automaton of src/aho_corasick_matcher.py:              *)
(* AhoCorasickNode, AhoCorasick.add_pattern, build_failure_links, search.  *)
(* Nodes live in an arena (a sequence); a node is referred to by its       *)
(* index, the root is index 1 and Python's None is 0.  A dict of children  *)
(* is the sequence of its (char, node) items in insertion order, a string  *)
(* is the sequence of its characters, pattern identifiers and text         *)
(* positions are 0-based as in the source.                                 *)
(*                                                                         *)
(* add_pattern and build_failure_links are calls of the one building       *)
(* thread, made while no search runs; build_failure_links advances one     *)
(* queue entry per step and a search one character per step, so that the   *)
(* searches of several callers interleave.  builds, stale and skipped      *)
(* record the history of calls: the completed builds, whether a pattern    *)
(* was added after the last build, and the empty patterns passed.          *)
(***************************************************************************)
EXTENDS Integers, Sequences, FiniteSets, TLC

VARIABLES nodes, patterns, builder, scan, builds, stale, skipped

vars == <<nodes, patterns, builder, scan, builds, stale, skipped>>

\* ------------------------------------------------------------- bounds
MaxPatLen == 2
MaxPatterns == 2
MaxTextLen == 3
WideMaxPatLen == 3
WideMaxPatterns == 3
WideMaxTextLen == 3
DeepMaxPatLen == 4
DeepMaxPatterns == 2
DeepMaxTextLen == 4
AnyMaxPatLen == 1
AnyMaxPatterns == 2
AnyMaxTextLen == 2
MaxBuilds == 2
MaxSkipped == 1
NumScans == 2

\* ------------------------------------------------------------- inputs
Alphabet == {"a", "b"}

Strings(S, n) == UNION {[1..k -> S] : k \in 0..n}

Patterns == Strings(Alphabet, MaxPatLen) \ {<<>>}

WidePatterns == Strings(Alphabet, WideMaxPatLen) \ {<<>>}

WideTexts == Strings(Alphabet, WideMaxTextLen)

DeepPatterns == Strings(Alphabet, DeepMaxPatLen) \ {<<>>}

DeepTexts == Strings(Alphabet, DeepMaxTextLen)

AnyPatterns == Strings(Alphabet, AnyMaxPatLen)

Texts == Strings(Alphabet, MaxTextLen)

AnyTexts == Strings(Alphabet, AnyMaxTextLen)

He == <<"h", "e">>

She == <<"s", "h", "e">>

Hers == <<"h", "e", "r", "s">>

Ushers == <<"u", "s", "h", "e", "r", "s">>

UshersPatterns == {He, She, Hers}

UshersTexts == {Ushers, Hers}

\* ------------------------------------------------------------- nodes
None == 0

Root == 1

Range(f) == {f[k] : k \in DOMAIN f}

AhoCorasickNode ==
  [children |-> <<>>, failure_link |-> None, output |-> <<>>,
   is_end_of_pattern |-> FALSE]

\* char in node.children
HasChild(node, ch) == \E k \in DOMAIN node.children : node.children[k].char = ch

\* node.children[char]
Child(node, ch) ==
  node.children[CHOOSE k \in DOMAIN node.children : node.children[k].char = ch].node

\* node.children.values(), in insertion order
ChildNodes(node) == [k \in DOMAIN node.children |-> node.children[k].node]

\* ------------------------------------------------------------- add_pattern
\* The loop of add_pattern from character k on: [nodes, current].
RECURSIVE Walk(_, _, _, _)
Walk(ns, current, pattern, k) ==
  IF k > Len(pattern) THEN [nodes |-> ns, current |-> current]
  ELSE IF HasChild(ns[current], pattern[k])
       THEN Walk(ns, Child(ns[current], pattern[k]), pattern, k + 1)
       ELSE LET new == Len(ns) + 1
                grown == Append([ns EXCEPT ![current].children =
                                    Append(@, [char |-> pattern[k], node |-> new])],
                                AhoCorasickNode)
            IN Walk(grown, new, pattern, k + 1)

\* add_pattern that assigns the output instead of appending to it.
add_pattern_overwrite(aut, pattern) ==
  IF pattern = <<>> THEN aut
  ELSE LET pattern_id == Len(aut.patterns)
           w == Walk(aut.nodes, Root, pattern, 1)
       IN [nodes |-> [w.nodes EXCEPT ![w.current].is_end_of_pattern = TRUE,
                                      ![w.current].output = <<pattern_id>>],
           patterns |-> Append(aut.patterns, pattern)]

\* add_pattern without the early return of lines 21-22.
add_pattern_unguarded(aut, pattern) ==
  LET pattern_id == Len(aut.patterns)
      w == Walk(aut.nodes, Root, pattern, 1)
  IN [nodes |-> [w.nodes EXCEPT ![w.current].is_end_of_pattern = TRUE,
                                 ![w.current].output = Append(@, pattern_id)],
      patterns |-> Append(aut.patterns, pattern)]

\* add_pattern on the automaton aut = [nodes, patterns].
add_pattern(aut, pattern) ==
  IF pattern = <<>> THEN aut
  ELSE LET pattern_id == Len(aut.patterns)
           w == Walk(aut.nodes, Root, pattern, 1)
       IN [nodes |-> [w.nodes EXCEPT ![w.current].is_end_of_pattern = TRUE,
                                      ![w.current].output = Append(@, pattern_id)],
           patterns |-> Append(aut.patterns, pattern)]

\* ------------------------------------------------------------- build_failure_links
\* Lines 34-37: the root's children get the root as failure link and are queued.
BuildInit(ns) ==
  [nodes |-> [n \in DOMAIN ns |->
                IF n \in Range(ChildNodes(ns[Root]))
                THEN [ns[n] EXCEPT !.failure_link = Root] ELSE ns[n]],
   queue |-> ChildNodes(ns[Root]),
   raised |-> FALSE]

\* Lines 43-44 with the loop replaced by a jump to the root.
FailureWalkNoLoop(ns, failure_node, ch) ==
  IF failure_node = None THEN None
  ELSE IF failure_node # Root /\ ~HasChild(ns[failure_node], ch)
       THEN Root
       ELSE failure_node

\* Lines 43-44: the node the while loop stops at, None when it reads
\* .children of None (AttributeError).
RECURSIVE FailureWalk(_, _, _)
FailureWalk(ns, failure_node, ch) ==
  IF failure_node = None THEN None
  ELSE IF failure_node # Root /\ ~HasChild(ns[failure_node], ch)
       THEN FailureWalk(ns, ns[failure_node].failure_link, ch)
       ELSE failure_node

\* Line 45 with every failure link set to the root.
ChildOrRootAlwaysRoot(node, ch) == Root

\* failure_node.children.get(char, self.root)
ChildOrRoot(node, ch) == IF HasChild(node, ch) THEN Child(node, ch) ELSE Root

\* Lines 40-46: the for loop over current_node.children.items() from item k on.
RECURSIVE VisitChildren(_, _, _)
VisitChildren(b, current_node, k) ==
  IF b.raised \/ k > Len(b.nodes[current_node].children) THEN b
  ELSE LET item == b.nodes[current_node].children[k]
           failure_node == FailureWalk(b.nodes, b.nodes[current_node].failure_link,
                                       item.char)
       IN IF failure_node = None
          THEN [b EXCEPT !.queue = Append(@, item.node), !.raised = TRUE]
          ELSE LET link == ChildOrRoot(b.nodes[failure_node], item.char)
               IN VisitChildren(
                    [b EXCEPT !.queue = Append(@, item.node),
                              !.nodes[item.node].failure_link = link,
                              !.nodes[item.node].output = @ \o b.nodes[link].output],
                    current_node, k + 1)

\* Lines 39-46 with the queue used as a stack (pop instead of popleft).
BuildVisitLifo(b) ==
  VisitChildren([b EXCEPT !.queue = SubSeq(@, 1, Len(@) - 1)], b.queue[Len(b.queue)], 1)

\* Lines 39-46: one iteration of "while queue".
BuildVisitOp(b) == VisitChildren([b EXCEPT !.queue = Tail(@)], Head(b.queue), 1)

\* Lines 38-46: the while loop run to its end.
RECURSIVE BuildLoop(_)
BuildLoop(b) == IF b.raised \/ b.queue = <<>> THEN b ELSE BuildLoop(BuildVisitOp(b))

\* build_failure_links as one call: the nodes it leaves.
build_failure_links(ns) == BuildLoop(BuildInit(ns)).nodes

\* ------------------------------------------------------------- search
\* Lines 52-53 with the scan restarted at the root on a mismatch.
FallbackToRoot(ns, current, ch) ==
  IF current = None THEN None
  ELSE IF current # Root /\ ~HasChild(ns[current], ch)
       THEN Root
       ELSE current

\* Lines 52-53: the node the while loop stops at, None when it reads
\* .children of None (AttributeError).
RECURSIVE Fallback(_, _, _)
Fallback(ns, current, ch) ==
  IF current = None THEN None
  ELSE IF current # Root /\ ~HasChild(ns[current], ch)
       THEN Fallback(ns, ns[current].failure_link, ch)
       ELSE current

\* Lines 57-60 with start_pos = i - len(pattern).
EmitOffByOne(pats, output, i) ==
  [k \in DOMAIN output |-> <<i - Len(pats[output[k] + 1]), pats[output[k] + 1]>>]

\* Lines 57-60: the matches appended for current.output at text index i.
Emit(pats, output, i) ==
  [k \in DOMAIN output |-> <<i - Len(pats[output[k] + 1]) + 1, pats[output[k] + 1]>>]

\* Lines 51-60: one iteration of the for loop of search, on the scan record sc.
SearchCharOp(ns, pats, sc) ==
  LET ch == sc.text[sc.i + 1]
      fell == Fallback(ns, sc.current, ch)
  IN IF fell = None THEN [sc EXCEPT !.pc = "raised"]
     ELSE LET current == IF HasChild(ns[fell], ch) THEN Child(ns[fell], ch) ELSE fell
          IN [sc EXCEPT !.current = current, !.i = @ + 1,
                        !.matches = @ \o Emit(pats, ns[current].output, sc.i)]

\* Lines 49-50: the locals of a call of search.
SearchInit(text) ==
  [pc |-> "scanning", text |-> text, i |-> 0, current |-> Root, matches |-> <<>>]

RECURSIVE SearchLoop(_, _, _)
SearchLoop(ns, pats, sc) ==
  IF sc.pc = "raised" \/ sc.i = Len(sc.text) THEN sc
  ELSE SearchLoop(ns, pats, SearchCharOp(ns, pats, sc))

\* search as one call: the scan record at its return (or where it raised).
search(ns, pats, text) == SearchLoop(ns, pats, SearchInit(text))

\* ------------------------------------------------------------- state machine
Idle == [pc |-> "idle", text |-> <<>>, i |-> 0, current |-> Root, matches |-> <<>>]

InitScans(ids) ==
  /\ nodes = <<AhoCorasickNode>>
  /\ patterns = <<>>
  /\ builder = [pc |-> "idle", queue |-> <<>>]
  /\ scan = [s \in ids |-> Idle]
  /\ builds = 0
  /\ stale = FALSE
  /\ skipped = 0

Init == InitScans({1})

\* No call of search is running.
Quiet == \A s \in DOMAIN scan : scan[s].pc = "idle"

\* A call add_pattern(pattern), made between the other calls.
AddPattern(pattern) ==
  /\ builder.pc = "idle"
  /\ Quiet
  /\ LET aut == add_pattern([nodes |-> nodes, patterns |-> patterns], pattern)
     IN /\ nodes' = aut.nodes
        /\ patterns' = aut.patterns
  /\ skipped' = IF pattern = <<>> THEN skipped + 1 ELSE skipped
  /\ stale' = IF pattern # <<>> /\ builds > 0 THEN TRUE ELSE stale
  /\ UNCHANGED <<builder, scan, builds>>

\* build_failure_links is called: lines 34-37.
BuildStart ==
  /\ builder.pc = "idle"
  /\ Quiet
  /\ LET b == BuildInit(nodes)
     IN /\ nodes' = b.nodes
        /\ builder' = [pc |-> "building", queue |-> b.queue]
  /\ UNCHANGED <<patterns, scan, builds, stale, skipped>>

\* One iteration of the while loop of build_failure_links.
BuildVisit ==
  /\ builder.pc = "building"
  /\ builder.queue # <<>>
  /\ LET b == BuildVisitOp([nodes |-> nodes, queue |-> builder.queue, raised |-> FALSE])
     IN /\ nodes' = b.nodes
        /\ builder' = [pc |-> IF b.raised THEN "raised" ELSE "building",
                       queue |-> b.queue]
  /\ UNCHANGED <<patterns, scan, builds, stale, skipped>>

\* build_failure_links returns (the queue is empty) or its exception leaves it.
BuildReturn ==
  /\ \/ builder.pc = "building" /\ builder.queue = <<>>
     \/ builder.pc = "raised"
  /\ builder' = [pc |-> "idle", queue |-> <<>>]
  /\ builds' = IF builder.pc = "building" THEN builds + 1 ELSE builds
  /\ stale' = IF builder.pc = "building" THEN FALSE ELSE stale
  /\ UNCHANGED <<nodes, patterns, scan, skipped>>

\* search(text) is called in context s.
SearchStart(s, text) ==
  /\ builder.pc = "idle"
  /\ scan[s].pc = "idle"
  /\ scan' = [scan EXCEPT ![s] = SearchInit(text)]
  /\ UNCHANGED <<nodes, patterns, builder, builds, stale, skipped>>

\* SearchChar that takes the identifiers out of current.output as it reports
\* them (pop instead of iteration).
SearchCharDraining(s) ==
  /\ scan[s].pc = "scanning"
  /\ scan[s].i < Len(scan[s].text)
  /\ scan' = [scan EXCEPT ![s] = SearchCharOp(nodes, patterns, scan[s])]
  /\ nodes' = IF scan'[s].pc = "raised" THEN nodes
              ELSE [nodes EXCEPT ![scan'[s].current].output = <<>>]
  /\ UNCHANGED <<patterns, builder, builds, stale, skipped>>

\* One character of the text of the search in context s.
SearchChar(s) ==
  /\ scan[s].pc = "scanning"
  /\ scan[s].i < Len(scan[s].text)
  /\ scan' = [scan EXCEPT ![s] = SearchCharOp(nodes, patterns, scan[s])]
  /\ UNCHANGED <<nodes, patterns, builder, builds, stale, skipped>>

\* The call in context s is at its return statement, or has raised.
AtReturn(s) == scan[s].pc = "scanning" /\ scan[s].i = Len(scan[s].text)

\* search returns its list to the caller, or its exception leaves it.
SearchReturn(s) ==
  /\ AtReturn(s) \/ scan[s].pc = "raised"
  /\ scan' = [scan EXCEPT ![s] = Idle]
  /\ UNCHANGED <<nodes, patterns, builder, builds, stale, skipped>>

\* The calls of the program (lines 94-99 and 162-164): build_automaton adds
\* the patterns and builds the failure links once, validate then searches.
Program(pats, maxPatterns, texts) ==
  \/ \E p \in pats :
       /\ builds = 0
       /\ Len(patterns) < maxPatterns
       /\ AddPattern(p)
  \/ builds = 0 /\ BuildStart
  \/ BuildVisit
  \/ BuildReturn
  \/ \E s \in DOMAIN scan, t \in texts : builds = 1 /\ SearchStart(s, t)
  \/ \E s \in DOMAIN scan : SearchChar(s)
  \/ \E s \in DOMAIN scan : SearchReturn(s)

\* The calls of a caller that uses the AhoCorasick class in any order.
AnyOrder(pats, maxPatterns, texts) ==
  \/ \E p \in pats :
       /\ IF p = <<>> THEN skipped < MaxSkipped ELSE Len(patterns) < maxPatterns
       /\ AddPattern(p)
  \/ builds < MaxBuilds /\ BuildStart
  \/ BuildVisit
  \/ BuildReturn
  \/ \E s \in DOMAIN scan, t \in texts : SearchStart(s, t)
  \/ \E s \in DOMAIN scan : SearchChar(s)
  \/ \E s \in DOMAIN scan : SearchReturn(s)

\* The program over every pattern and text within the bounds.
Next == Program(Patterns, MaxPatterns, Texts)

Spec == Init /\ [][Next]_vars

\* The program over more and longer patterns.
NextWide == Program(WidePatterns, WideMaxPatterns, WideTexts)

SpecWide == Init /\ [][NextWide]_vars

\* The program over fewer, still longer patterns and longer texts.
NextDeep == Program(DeepPatterns, DeepMaxPatterns, DeepTexts)

SpecDeep == Init /\ [][NextDeep]_vars

\* Any order of calls, the empty pattern included.
NextAnyOrder == AnyOrder(AnyPatterns, AnyMaxPatterns, AnyTexts)

SpecAnyOrder == Init /\ [][NextAnyOrder]_vars

\* The program with NumScans concurrent callers of search.
InitConc == InitScans(1..NumScans)

NextConc == Program(UshersPatterns, Cardinality(UshersPatterns), UshersTexts)

SpecConc == InitConc /\ [][NextConc]_vars

\* The program on the patterns and the text of the "ushers" example.
NextUshers == Program(UshersPatterns, Cardinality(UshersPatterns), UshersTexts)

SpecUshers == Init /\ [][NextUshers]_vars

\* ------------------------------------------------------------- reference notions
\* The node whose children hold n.
Parent(ns, n) == CHOOSE p \in DOMAIN ns : n \in Range(ChildNodes(ns[p]))

\* The path-label of node n: the characters on the path from the root to n.
RECURSIVE Label(_, _)
Label(ns, n) ==
  IF n = Root THEN <<>>
  ELSE LET p == Parent(ns, n)
           k == CHOOSE j \in DOMAIN ns[p].children : ns[p].children[j].node = n
       IN Append(Label(ns, p), ns[p].children[k].char)

\* The node whose path-label is w from character k on below current, or None.
RECURSIVE Lookup(_, _, _, _)
Lookup(ns, current, w, k) ==
  IF k > Len(w) THEN current
  ELSE IF HasChild(ns[current], w[k]) THEN Lookup(ns, Child(ns[current], w[k]), w, k + 1)
       ELSE None

NodeOf(ns, w) == Lookup(ns, Root, w, 1)

\* w without its first k characters.
Drop(w, k) == SubSeq(w, k + 1, Len(w))

IsSuffix(p, w) == Len(p) <= Len(w) /\ Drop(w, Len(w) - Len(p)) = p

\* The start offsets a sliding-window scan of text finds for pattern.
NaiveOffsets(text, pattern) ==
  {o \in 0..(Len(text) - Len(pattern)) : SubSeq(text, o + 1, o + Len(pattern)) = pattern}

\* How often e occurs in the sequence seq.
Count(seq, e) == Cardinality({k \in DOMAIN seq : seq[k] = e})

SameCollection(x, y) == \A e \in Range(x) \cup Range(y) : Count(x, e) = Count(y, e)

\* The identifiers of the registered patterns equal to w, ascending.
RECURSIVE IdsOf(_, _, _)
IdsOf(pats, w, k) ==
  IF k > Len(pats) THEN <<>>
  ELSE (IF pats[k] = w THEN <<k - 1>> ELSE <<>>) \o IdsOf(pats, w, k + 1)

\* The non-empty prefixes of the registered patterns.
Prefixes(pats) ==
  UNION {{SubSeq(pats[k], 1, j) : j \in 1..Len(pats[k])} : k \in DOMAIN pats}

\* The nodes reached from n by following failure links, n included.
RECURSIVE FailChain(_, _)
FailChain(ns, n) ==
  IF n = None THEN {}
  ELSE IF n = Root THEN {Root}
       ELSE {n} \cup FailChain(ns, ns[n].failure_link)

\* The automaton the program builds from the pattern sequence pats.
RECURSIVE AddAll(_, _, _)
AddAll(aut, pats, k) ==
  IF k > Len(pats) THEN aut ELSE AddAll(add_pattern(aut, pats[k]), pats, k + 1)

BuildAutomaton(pats) ==
  LET aut == AddAll([nodes |-> <<AhoCorasickNode>>, patterns |-> <<>>], pats, 1)
  IN [nodes |-> build_failure_links(aut.nodes), patterns |-> aut.patterns]

\* The matches of search(text) on the automaton built from pats.
Scan(pats, text) ==
  LET aut == BuildAutomaton(pats) IN search(aut.nodes, aut.patterns, text).matches

\* Patterns were added, build_failure_links ran exactly once, nothing was
\* added since.
Ready == builder.pc = "idle" /\ builds = 1 /\ ~stale

\* ------------------------------------------------------------- claims
\* C1: after the patterns are added and build_failure_links ran once, search
\* completes, and for every registered pattern P the start offsets of the
\* matches (start, P) it returns are exactly the offsets a sliding-window
\* scan of the text finds for P; every reported start is >= 0 and every
\* reported pattern is a registered one.
C1_SearchEqualsNaive ==
  \A s \in DOMAIN scan :
    Ready =>
      /\ scan[s].pc # "raised"
      /\ AtReturn(s) =>
           LET m == scan[s].matches
           IN /\ \A k \in DOMAIN m : m[k][1] >= 0 /\ m[k][2] \in Range(patterns)
              /\ \A P \in Range(patterns) :
                   {m[k][1] : k \in {j \in DOMAIN m : m[j][2] = P}}
                     = NaiveOffsets(scan[s].text, P)

C1_Witness ==
  \E s \in DOMAIN scan :
    /\ Ready /\ AtReturn(s)
    /\ Len(patterns) >= 2
    /\ \E P \in Range(patterns) : Cardinality(NaiveOffsets(scan[s].text, P)) >= 2
    /\ \E P \in Range(patterns) : NaiveOffsets(scan[s].text, P) = {}

\* C2: the matches search returns on the automaton built from P1..Pn are, as
\* a collection with multiplicities, the union of the matches of the n
\* automata built from one Pi each, and the same collection results from
\* every permutation of the insertion order.
C2_Superposition ==
  \A s \in DOMAIN scan :
    (Ready /\ AtReturn(s)) =>
      LET m == scan[s].matches
          T == scan[s].text
          single == [k \in DOMAIN patterns |-> Scan(<<patterns[k]>>, T)]
          all == UNION {{<<k, j>> : j \in DOMAIN single[k]} : k \in DOMAIN single}
          union(e) == Cardinality({kj \in all : single[kj[1]][kj[2]] = e})
      IN /\ \A e \in Range(m) \cup {single[kj[1]][kj[2]] : kj \in all} :
              Count(m, e) = union(e)
         /\ \A perm \in Permutations(DOMAIN patterns) :
              SameCollection(Scan([k \in DOMAIN patterns |-> patterns[perm[k]]], T), m)

C2_Witness ==
  \E s \in DOMAIN scan :
    /\ Ready /\ AtReturn(s)
    /\ Len(patterns) = WideMaxPatterns
    /\ Cardinality(Range(patterns)) = WideMaxPatterns
    /\ \A P \in Range(patterns) : NaiveOffsets(scan[s].text, P) # {}

\* C3 as stated: after adding "he", "she", "hers" in that order and one
\* build_failure_links, search("ushers") returns exactly
\* [(2,"she"), (3,"he"), (3,"hers")].
C3_UshersAsStated ==
  \A s \in DOMAIN scan :
    ( /\ Ready /\ AtReturn(s)
      /\ patterns = <<He, She, Hers>>
      /\ scan[s].text = Ushers )
    => scan[s].matches = <<<<2, She>>, <<3, He>>, <<3, Hers>>>>

\* C3 amended: after adding "he", "she", "hers" in that order and one
\* build_failure_links, search("ushers") returns exactly
\* [(1,"she"), (2,"he"), (2,"hers")], each start being i - len(pattern) + 1
\* for the 0-based index i of the pattern's last character.
C3_Ushers ==
  \A s \in DOMAIN scan :
    ( /\ Ready /\ AtReturn(s)
      /\ patterns = <<He, She, Hers>>
      /\ scan[s].text = Ushers )
    => /\ scan[s].matches = <<<<1, She>>, <<2, He>>, <<2, Hers>>>>
       /\ \A k \in DOMAIN scan[s].matches :
            LET m == scan[s].matches[k]
            IN SubSeq(Ushers, m[1] + 1, m[1] + Len(m[2])) = m[2]

C3_Witness ==
  \E s \in DOMAIN scan :
    /\ Ready /\ AtReturn(s)
    /\ patterns = <<He, She, Hers>>
    /\ scan[s].text = Ushers
    /\ Len(scan[s].matches) = 3

\* C4: add_pattern called k times with the same text gives k distinct
\* identifiers, all recorded in call order at the one state whose path-label
\* is the text; the trie has one state per distinct non-empty prefix of the
\* patterns, so a repeated text creates none; after build_failure_links,
\* search reports every occurrence of the text k times.
C4_Duplicates ==
  /\ Cardinality({Label(nodes, n) : n \in DOMAIN nodes}) = Len(nodes)
  /\ Len(nodes) = 1 + Cardinality(Prefixes(patterns))
  /\ (builds = 0 /\ builder.pc = "idle") =>
       /\ \A n \in DOMAIN nodes :
            /\ nodes[n].output = IdsOf(patterns, Label(nodes, n), 1)
            /\ nodes[n].is_end_of_pattern = (nodes[n].output # <<>>)
       /\ \A P \in Range(patterns) :
            LET again == add_pattern([nodes |-> nodes, patterns |-> patterns], P)
                t == NodeOf(nodes, P)
            IN /\ Len(again.nodes) = Len(nodes)
               /\ again.nodes[t].output = Append(nodes[t].output, Len(patterns))
               /\ \A n \in DOMAIN nodes \ {t} : again.nodes[n] = nodes[n]
  /\ \A s \in DOMAIN scan :
       (Ready /\ AtReturn(s)) =>
         \A P \in Range(patterns), o \in 0..Len(scan[s].text) :
           Count(scan[s].matches, <<o, P>>)
             = IF o \in NaiveOffsets(scan[s].text, P)
               THEN Len(IdsOf(patterns, P, 1)) ELSE 0

C4_Witness ==
  \E s \in DOMAIN scan :
    /\ Ready /\ AtReturn(s)
    /\ patterns = <<<<"a", "b">>, <<"a", "b">>>>
    /\ Len(nodes) = 3
    /\ scan[s].text = <<"a", "b">>
    /\ scan[s].matches = <<<<0, <<"a", "b">>>>, <<0, <<"a", "b">>>>>>

\* C5: a search on an automaton whose build_failure_links was never called
\* never raises.
C5_SearchBeforeBuildNeverRaises ==
  \A s \in DOMAIN scan : builds = 0 => scan[s].pc # "raised"

\* C6: once build_failure_links has completed, no later call changes the
\* trie states, their transitions, failure links and outputs, or the pattern
\* list (a later add_pattern is rejected).
C6_FrozenAfterBuild ==
  [][(builds >= 1 /\ builder.pc = "idle" /\ builder'.pc = "idle")
       => (nodes' = nodes /\ patterns' = patterns)]_vars

\* C7: add_pattern("") changes nothing in any state and consumes no
\* identifier; the root is never terminal, its output is empty, no registered
\* pattern is empty, and before the build the identifiers 0..n-1 are each
\* recorded exactly once.
C7_EmptyPatternNoOp ==
  /\ add_pattern([nodes |-> nodes, patterns |-> patterns], <<>>)
       = [nodes |-> nodes, patterns |-> patterns]
  /\ ~nodes[Root].is_end_of_pattern
  /\ nodes[Root].output = <<>>
  /\ nodes[Root].failure_link = None
  /\ \A k \in DOMAIN patterns : patterns[k] # <<>>
  /\ (builds = 0 /\ builder.pc = "idle") =>
       \A id \in 0..(Len(patterns) - 1) :
         Cardinality({nk \in {<<n, k>> : n \in DOMAIN nodes, k \in 1..Len(patterns)} :
                        /\ nk[2] \in DOMAIN nodes[nk[1]].output
                        /\ nodes[nk[1]].output[nk[2]] = id}) = 1

C7_Witness == skipped > 0 /\ Len(patterns) = AnyMaxPatterns /\ builds = 0

\* C8: a step of a search changes nothing but the record of that one search,
\* and every search, however its steps interleave with those of the others,
\* ends exactly as the same call run alone on the automaton ends.
C8_ScansAlone ==
  \A s \in DOMAIN scan :
    (AtReturn(s) \/ scan[s].pc = "raised") =>
      scan[s] = search(nodes, patterns, scan[s].text)

C8_ScanStepsPrivate ==
  (scan' # scan) =>
    /\ nodes' = nodes /\ patterns' = patterns /\ builder' = builder
    /\ \E s \in DOMAIN scan : \A t \in DOMAIN scan \ {s} : scan'[t] = scan[t]

C8_ScansIndependent == []C8_ScansAlone /\ [][C8_ScanStepsPrivate]_vars

C8_Witness ==
  \E s, t \in DOMAIN scan :
    /\ s # t
    /\ Ready /\ AtReturn(s) /\ AtReturn(t)
    /\ scan[s].text = scan[t].text
    /\ Len(scan[s].matches) = 3

\* C9: after one build_failure_links every non-root state has a failure
\* link, the state labelled by the longest proper suffix of its path-label
\* that labels a state (the root for the empty suffix), strictly shallower
\* than the state; the root's failure link stays unset and neither the
\* builder nor a search on the built automaton runs into an unset link.
C9_FailureLinks ==
  /\ nodes[Root].failure_link = None
  /\ builder.pc # "raised"
  /\ Ready =>
       /\ \A s \in DOMAIN scan : scan[s].pc # "raised"
       /\ \A n \in DOMAIN nodes \ {Root} :
            LET w == Label(nodes, n)
                k == CHOOSE j \in 1..Len(w) :
                       /\ NodeOf(nodes, Drop(w, j)) # None
                       /\ \A i \in 1..(j - 1) : NodeOf(nodes, Drop(w, i)) = None
            IN /\ nodes[n].failure_link # None
               /\ nodes[n].failure_link = NodeOf(nodes, Drop(w, k))
               /\ Len(Label(nodes, nodes[n].failure_link)) < Len(w)

C9_Witness ==
  /\ Ready
  /\ patterns = <<<<"a", "b", "a", "b">>, <<"b", "a">>>>
  /\ nodes[NodeOf(nodes, <<"a", "b", "a">>)].failure_link = NodeOf(nodes, <<"b", "a">>)
  /\ nodes[NodeOf(nodes, <<"a", "b", "a", "b">>)].failure_link = NodeOf(nodes, <<"a", "b">>)
  /\ \E s \in DOMAIN scan : AtReturn(s) /\ Len(scan[s].text) = DeepMaxTextLen

\* C10: during the first build_failure_links every state that has got its
\* failure link (and after it every non-root state) has its final output:
\* the identifiers of the patterns that end at a state of its failure chain,
\* which are the patterns that are suffixes of its path-label, each exactly
\* once; its failure target got its own link, and so its final output, before.
C10_Outputs ==
  (Ready \/ (builds = 0 /\ builder.pc = "building")) =>
    /\ nodes[Root].output = <<>>
    /\ Ready => \A n \in DOMAIN nodes \ {Root} : nodes[n].failure_link # None
    /\ \A n \in DOMAIN nodes \ {Root} :
         nodes[n].failure_link # None =>
           LET w == Label(nodes, n)
               chain == FailChain(nodes, n)
           IN /\ nodes[n].failure_link = Root
                 \/ nodes[nodes[n].failure_link].failure_link # None
              /\ Range(nodes[n].output) \subseteq 0..(Len(patterns) - 1)
              /\ \A id \in 0..(Len(patterns) - 1) :
                   /\ Count(nodes[n].output, id)
                        = IF IsSuffix(patterns[id + 1], w) THEN 1 ELSE 0
                   /\ IsSuffix(patterns[id + 1], w)
                        <=> NodeOf(nodes, patterns[id + 1]) \in chain

C10_Witness ==
  /\ Ready
  /\ \E n \in DOMAIN nodes :
       /\ Len(nodes[n].output) = 3
       /\ Cardinality(FailChain(nodes, n)) = 4

====
